---- MODULE Spec2Model ----
(***************************************************************************)
(* Model of EMQST_lib/emqst.py: the function emqst, one benchmark run of   *)
(* noise-corrected quantum state tomography.  The function is sequential;  *)
(* pc is the position of the run, one action per block of the function.    *)
(* Collaborators that live outside this file (POVM, dt, QST, curve_fit,    *)
(* the file system, matplotlib) are recorded by the calls the function     *)
(* makes on them and by the values they hand back, kept symbolic.          *)
(***************************************************************************)
EXTENDS Integers, Sequences, FiniteSets, TLC

\* ---- bounds of the model ------------------------------------------------
MaxQubits == 2
MaxNoiseMode == 2
MaxStates == 2
NumPOVMs == 2
MaxExtraShots == 2

\* ---- constants of the program -------------------------------------------
\* n_cores<10 (line 154)
ClusterThreshold == 10
\* sample_step[1000:] (lines 156, 158)
FitPrefix == 1000
\* p0=np.array([1,-0.5]): curve_fit fits two parameters (lines 156, 158)
FitParams == 2

Methods == {"MLE", "BME", "LS"}
CoreCounts == {ClusterThreshold - 1, ClusterThreshold}
TrajLens == {FitPrefix - 1} \cup (FitPrefix .. FitPrefix + MaxExtraShots)

VARIABLES
    \* arguments of the call
    n_qubits, noise_arg, bool_exp_measurements, calibration_given, method,
    n_cores, n_states, traj_len,
    \* environment
    results_exists, dirs, files,
    \* locals of emqst
    pc, noise_mode, calibration_states, calibration_angles, POVM_list,
    noisy_POVM_list, reconstructed_POVM_list, qst,
    corrected_infidelity, corrected_rho_estm,
    uncorrected_infidelity, uncorrected_rho_estm,
    n_averages, sample_step, fitted,
    \* observable effects
    printed, calls, error, failed_at, returned

args == <<n_qubits, noise_arg, bool_exp_measurements, calibration_given,
          method, n_cores, n_states, traj_len>>
env == <<results_exists, dirs, files>>
povms == <<POVM_list, noisy_POVM_list, reconstructed_POVM_list>>
calib == <<calibration_states, calibration_angles>>
reads == <<corrected_infidelity, corrected_rho_estm,
           uncorrected_infidelity, uncorrected_rho_estm>>
aggr == <<n_averages, sample_step, fitted>>
vars == <<args, env, povms, calib, reads, aggr, pc, noise_mode, qst,
          printed, calls, error, failed_at, returned>>

\* ---- symbolic values ----------------------------------------------------
\* One measurement operator set: which nominal set it derives from, the
\* noise transform applied to it and whether it is a reconstruction.
Operator(nq, i) ==
    [nq |-> nq, idx |-> i, noise |-> "none", mode |-> 0, recon |-> FALSE]

\* POVM.generate_Pauli_POVM(n_qubits)
generate_Pauli_POVM(nq) == [i \in 1..NumPOVMs |-> Operator(nq, i)]

\* POVM.generate_noisy_POVM(povm, noise_mode)
generate_noisy_POVM(povm, mode) ==
    [povm EXCEPT !.noise = "single", !.mode = mode]

\* POVM.depolarized_POVM(povm)
depolarized_POVM(povm) == [povm EXCEPT !.noise = "depol"]

\* dt.device_tomography(...): a reconstruction of the set it measured under
device_tomography(noisy) == [i \in 1..Len(noisy) |-> [noisy[i] EXCEPT !.recon = TRUE]]

\* an array handed back by an accessor of the QST object: its shape, the
\* operator set and the data generation of the run it comes from
NoArray ==
    [set |-> FALSE, kind |-> "none", rows |-> 0, cols |-> 0, povms |-> <<>>,
     gen |-> 0, run |-> 0]

\* the QST object before line 112
NoQST ==
    [built |-> FALSE, POVM_list |-> <<>>, corrected |-> <<>>, data |-> <<>>,
     n_generated |-> 0, runs |-> 0, result_povms |-> <<>>, result_gen |-> 0]

\* one call on a collaborator, as the function makes it; runs is the number
\* of estimation runs the QST object has completed when the call is made
Call(op, ps, m, cs, ca) ==
    [op |-> op, povms |-> ps, mode |-> m, cal_states |-> cs, cal_angles |-> ca,
     runs |-> qst.runs]

\* one persisted artifact
File(name, m, noisy, nominal, recon) ==
    [name |-> name, noise_mode |-> m, noisy_POVM_list |-> noisy,
     initial_POVM |-> nominal, reconstructed_POVM_list |-> recon]

PlainFile(name) == File(name, 0, <<>>, <<>>, <<>>)

\* ---- the run --------------------------------------------------------------
Fail(at, exc) ==
    /\ pc' = "failed"
    /\ error' = exc
    /\ failed_at' = at

Goto(next) ==
    /\ pc' = next
    /\ UNCHANGED <<error, failed_at>>

Init ==
    /\ n_qubits \in 1..MaxQubits
    /\ noise_arg \in 0..MaxNoiseMode
    /\ bool_exp_measurements \in BOOLEAN
    /\ calibration_given \in BOOLEAN
    /\ method \in Methods
    /\ n_cores \in CoreCounts
    /\ n_states \in 0..MaxStates
    /\ traj_len \in TrajLens
    /\ results_exists \in BOOLEAN
    /\ dirs = {}
    /\ files = {}
    /\ pc = "check_results"
    /\ noise_mode = noise_arg
    /\ calibration_states = IF calibration_given THEN "given" ELSE "None"
    /\ calibration_angles = "unbound"
    /\ POVM_list = <<>>
    /\ noisy_POVM_list = <<>>
    /\ reconstructed_POVM_list = <<>>
    /\ qst = NoQST
    /\ corrected_infidelity = NoArray
    /\ corrected_rho_estm = NoArray
    /\ uncorrected_infidelity = NoArray
    /\ uncorrected_rho_estm = NoArray
    /\ n_averages = 0
    /\ sample_step = 0
    /\ fitted = FALSE
    /\ printed = {}
    /\ calls = <<>>
    /\ error = "none"
    /\ failed_at = "none"
    /\ returned = FALSE

\* lines 36-40: the parent results area
CheckResults ==
    /\ pc = "check_results"
    /\ IF results_exists
       THEN /\ Goto("make_run_dir")
            /\ UNCHANGED <<results_exists, dirs, printed>>
       ELSE /\ printed' = printed \cup {"Created results dictionary."}
            /\ \E ok \in BOOLEAN :
                 IF ok
                 THEN /\ results_exists' = TRUE
                      /\ dirs' = dirs \cup {"results"}
                      /\ Goto("make_run_dir")
                 ELSE /\ Fail("check_results", "OSError")
                      /\ UNCHANGED <<results_exists, dirs>>
    /\ UNCHANGED <<args, files, povms, calib, reads, aggr, noise_mode, qst,
                   calls, returned>>

\* MakeRunDir with the failure of os.mkdir swallowed
MakeRunDirIgnoresFailure ==
    /\ pc = "make_run_dir"
    /\ \E ok \in BOOLEAN :
         dirs' = IF ok THEN dirs \cup {"data_path"} ELSE dirs
    /\ Goto("save_settings")
    /\ UNCHANGED <<args, results_exists, files, povms, calib, reads, aggr,
                   noise_mode, qst, printed, calls, returned>>

\* lines 45-51: the directory of this run
MakeRunDir ==
    /\ pc = "make_run_dir"
    /\ \E ok \in BOOLEAN :
         IF ok
         THEN /\ dirs' = dirs \cup {"data_path"}
              /\ Goto("save_settings")
         ELSE /\ Fail("make_run_dir", "OSError")
              /\ UNCHANGED dirs
    /\ UNCHANGED <<args, results_exists, files, povms, calib, reads, aggr,
                   noise_mode, qst, printed, calls, returned>>

\* lines 53-54: experimental_settings.npy
SaveSettings ==
    /\ pc = "save_settings"
    /\ \E ok \in BOOLEAN :
         IF ok
         THEN /\ files' = files \cup {PlainFile("experimental_settings")}
              /\ Goto("resolve_calibration")
         ELSE /\ Fail("save_settings", "OSError")
              /\ UNCHANGED files
    /\ UNCHANGED <<args, results_exists, dirs, povms, calib, reads, aggr,
                   noise_mode, qst, printed, calls, returned>>

\* lines 56-67: calibration states, the nominal operator set, the banner
ResolveCalibration ==
    /\ pc = "resolve_calibration"
    /\ IF calibration_states = "None"
       THEN /\ calibration_states' = "default"
            /\ calibration_angles' = "default"
            /\ calls' = Append(calls,
                   Call("get_cailibration_states", <<>>, noise_mode, "None", "unbound"))
       ELSE UNCHANGED <<calibration_states, calibration_angles, calls>>
    /\ POVM_list' = generate_Pauli_POVM(n_qubits)
    /\ printed' = printed \cup {"Error corrected."}
    /\ Goto("noise")
    /\ UNCHANGED <<args, env, noisy_POVM_list, reconstructed_POVM_list, reads,
                   aggr, noise_mode, qst, returned>>

\* EffectiveNoiseMode without the override of line 72
EffectiveNoiseModeKeepsArgument(flag, m) == m

\* lines 71-72: the noise mode the run works with
EffectiveNoiseMode(flag, m) == IF flag THEN 0 ELSE m

\* ApplyNoise without the else branch of line 82: mode 0 is transformed too
ApplyNoiseAlways(nq, m, nominal) ==
    IF nq = 1
    THEN [i \in 1..Len(nominal) |-> generate_noisy_POVM(nominal[i], m)]
    ELSE [i \in 1..Len(nominal) |-> depolarized_POVM(nominal[i])]

\* ApplyNoise without the qubit-count dispatch of line 77
ApplyNoiseSingleOnly(nq, m, nominal) ==
    IF m # 0
    THEN [i \in 1..Len(nominal) |-> generate_noisy_POVM(nominal[i], m)]
    ELSE nominal

\* lines 75-83: the noisy operator set
ApplyNoise(nq, m, nominal) ==
    IF m # 0
    THEN IF nq = 1
         THEN [i \in 1..Len(nominal) |-> generate_noisy_POVM(nominal[i], m)]
         ELSE [i \in 1..Len(nominal) |-> depolarized_POVM(nominal[i])]
    ELSE nominal

\* lines 78, 81: the noise transforms called, one per operator
NoiseCalls(nq, m, nominal) ==
    IF m # 0
    THEN [i \in 1..Len(nominal) |->
            Call(IF nq = 1 THEN "generate_noisy_POVM" ELSE "depolarized_POVM",
                 <<nominal[i]>>, IF nq = 1 THEN m ELSE 0,
                 calibration_states, calibration_angles)]
    ELSE <<>>

\* what lines 73-84 print
NoisePrints(flag, nq, m) ==
    (IF flag
     THEN {"Noise mode is disabled as experimental measurements are performed."}
     ELSE {})
    \cup (IF m # 0 THEN {"Synthetic noise mode."} ELSE {"No synthetic noise."})
    \cup (IF m # 0 /\ nq = 1 THEN {"Synthetic single qubit noise mode."} ELSE {})

\* lines 70-84
NoiseStage ==
    /\ pc = "noise"
    /\ noise_mode' = EffectiveNoiseMode(bool_exp_measurements, noise_mode)
    /\ noisy_POVM_list' = ApplyNoise(n_qubits, noise_mode', POVM_list)
    /\ calls' = calls \o NoiseCalls(n_qubits, noise_mode', POVM_list)
    /\ printed' = printed \cup NoisePrints(bool_exp_measurements, n_qubits, noise_mode')
    /\ Goto("calibrate")
    /\ UNCHANGED <<args, env, POVM_list, reconstructed_POVM_list, calib, reads,
                   aggr, qst, returned>>

\* line 87: dt.device_tomography; calibration_angles is a local that only
\* line 57 binds
Calibrate ==
    /\ pc = "calibrate"
    /\ IF calibration_angles = "unbound"
       THEN /\ Fail("calibrate", "UnboundLocalError")
            /\ UNCHANGED <<reconstructed_POVM_list, calls, printed>>
       ELSE /\ calls' = Append(calls,
                   Call("device_tomography", noisy_POVM_list, noise_mode,
                        calibration_states, calibration_angles))
            /\ reconstructed_POVM_list' = device_tomography(noisy_POVM_list)
            /\ printed' = printed \cup {"Runtime of DT reconstruction."}
            /\ Goto("save_dt")
    /\ UNCHANGED <<args, env, POVM_list, noisy_POVM_list, calib, reads, aggr,
                   noise_mode, qst, returned>>

\* lines 91-110: DT_settings.npy and the calibration report
SaveDT ==
    /\ pc = "save_dt"
    /\ \E ok \in BOOLEAN :
         IF ok
         THEN /\ files' = files \cup
                   {File("DT_settings", noise_mode, noisy_POVM_list, POVM_list,
                         reconstructed_POVM_list)}
              /\ printed' = printed \cup {"POVM calibration complete."}
              /\ Goto("generate_data")
         ELSE /\ Fail("save_dt", "OSError")
              /\ UNCHANGED <<files, printed>>
    /\ UNCHANGED <<args, results_exists, dirs, povms, calib, reads, aggr,
                   noise_mode, qst, calls, returned>>

\* line 112: QST(POVM_list, ..., noise_corrected_POVM_list=reconstructed_POVM_list)
QST(nominal, corrected) ==
    [NoQST EXCEPT !.built = TRUE, !.POVM_list = nominal, !.corrected = corrected]

\* qst.generate_data(override_POVM_list=...): fresh outcome data, drawn under
\* the override set, or under the object's own set when there is none
generate_data(q, override) ==
    [q EXCEPT !.data = IF override = <<>> THEN q.POVM_list ELSE override,
              !.n_generated = @ + 1]

\* qst.perform_MLE / qst.perform_BME(override_POVM_list=...): one estimation
\* run over the data the object holds; its results replace the previous ones
perform(q, override) ==
    [q EXCEPT !.runs = @ + 1,
              !.result_povms = IF override = <<>> THEN q.POVM_list ELSE override,
              !.result_gen = q.n_generated]

\* qst.get_infidelity() / qst.get_rho_estm(): the results of the latest run
Accessor(q, kind) ==
    [set |-> TRUE, kind |-> kind, rows |-> n_states,
     cols |-> IF kind = "infidelity" THEN traj_len ELSE 0,
     povms |-> q.result_povms, gen |-> q.result_gen, run |-> q.runs]

\* lines 112-113: the QST object and the raw outcome data
GenerateData ==
    /\ pc = "generate_data"
    /\ qst' = generate_data(QST(POVM_list, reconstructed_POVM_list), noisy_POVM_list)
    /\ calls' = calls \o
          << Call("QST", POVM_list, noise_mode, calibration_states, calibration_angles),
             Call("generate_data", noisy_POVM_list, noise_mode,
                  calibration_states, calibration_angles) >>
    /\ Goto("save_qst_settings")
    /\ UNCHANGED <<args, env, povms, calib, reads, aggr, noise_mode, printed, returned>>

\* lines 116-117: qst.save_QST_settings(data_path, noise_mode)
SaveQSTSettings ==
    /\ pc = "save_qst_settings"
    /\ \E ok \in BOOLEAN :
         IF ok
         THEN /\ files' = files \cup {File("QST_settings", noise_mode, <<>>, <<>>, <<>>)}
              /\ printed' = printed \cup {"Generated data."}
              /\ Goto("corrected_run")
         ELSE /\ Fail("save_qst_settings", "OSError")
              /\ UNCHANGED <<files, printed>>
    /\ UNCHANGED <<args, results_exists, dirs, povms, calib, reads, aggr,
                   noise_mode, qst, calls, returned>>

\* lines 120-123 and 133-136: the estimator the selector names, if any
Estimate(override) ==
    IF method = "MLE" \/ method = "BME"
    THEN /\ qst' = perform(qst, override)
         /\ calls' = Append(calls,
                Call(IF method = "MLE" THEN "perform_MLE" ELSE "perform_BME",
                     override, noise_mode, calibration_states, calibration_angles))
    ELSE UNCHANGED <<qst, calls>>

\* lines 119-123: the corrected estimation run
CorrectedRun ==
    /\ pc = "corrected_run"
    /\ Estimate(reconstructed_POVM_list)
    /\ printed' = printed \cup {"Start corrected QST."}
    /\ Goto("corrected_read")
    /\ UNCHANGED <<args, env, povms, calib, reads, aggr, noise_mode, returned>>

\* lines 124-127: the corrected results are read
CorrectedRead ==
    /\ pc = "corrected_read"
    /\ IF qst.runs = 0
       THEN /\ calls' = Append(calls, Call("get_infidelity", <<>>, noise_mode,
                                           calibration_states, calibration_angles))
            /\ Fail("corrected_read", "StateNotReadyError")
            /\ UNCHANGED <<corrected_infidelity, corrected_rho_estm, printed>>
       ELSE /\ calls' = calls \o
                 << Call("get_infidelity", <<>>, noise_mode,
                         calibration_states, calibration_angles),
                    Call("get_rho_estm", <<>>, noise_mode,
                         calibration_states, calibration_angles) >>
            /\ corrected_infidelity' = Accessor(qst, "infidelity")
            /\ corrected_rho_estm' = Accessor(qst, "rho")
            /\ printed' = printed \cup {"Corrected QST complete."}
            /\ Goto("uncorrected_run")
    /\ UNCHANGED <<args, env, povms, calib, uncorrected_infidelity,
                   uncorrected_rho_estm, aggr, noise_mode, qst, returned>>

\* UncorrectedRun with the outcome data drawn afresh for the second track
UncorrectedRunRegenerates ==
    /\ pc = "uncorrected_run"
    /\ qst' = perform(generate_data(qst, noisy_POVM_list), <<>>)
    /\ calls' = calls \o
          << Call("generate_data", noisy_POVM_list, noise_mode,
                  calibration_states, calibration_angles),
             Call("perform_MLE", <<>>, noise_mode,
                  calibration_states, calibration_angles) >>
    /\ printed' = printed \cup {"Start uncorrected QST."}
    /\ Goto("uncorrected_read")
    /\ UNCHANGED <<args, env, povms, calib, reads, aggr, noise_mode, returned>>

\* lines 132-136: the comparative run, without an override set
UncorrectedRun ==
    /\ pc = "uncorrected_run"
    /\ Estimate(<<>>)
    /\ printed' = printed \cup {"Start uncorrected QST."}
    /\ Goto("uncorrected_read")
    /\ UNCHANGED <<args, env, povms, calib, reads, aggr, noise_mode, returned>>

\* lines 137-139: the uncorrected results are read
UncorrectedRead ==
    /\ pc = "uncorrected_read"
    /\ calls' = calls \o
          << Call("get_infidelity", <<>>, noise_mode,
                  calibration_states, calibration_angles),
             Call("get_rho_estm", <<>>, noise_mode,
                  calibration_states, calibration_angles) >>
    /\ uncorrected_infidelity' = Accessor(qst, "infidelity")
    /\ uncorrected_rho_estm' = Accessor(qst, "rho")
    /\ printed' = printed \cup {"Uncorrected QST complete."}
    /\ Goto("aggregate")
    /\ UNCHANGED <<args, env, povms, calib, corrected_infidelity,
                   corrected_rho_estm, aggr, noise_mode, qst, returned>>

\* lines 141-144: the mean curves; uncorrected_infidelity[0] is the first
\* row of an array that has one row per true state
Aggregate ==
    /\ pc = "aggregate"
    /\ n_averages' = n_states
    /\ IF uncorrected_infidelity.rows = 0
       THEN /\ Fail("aggregate", "IndexError")
            /\ UNCHANGED sample_step
       ELSE /\ sample_step' = uncorrected_infidelity.cols
            /\ Goto("save_results")
    /\ UNCHANGED <<args, env, povms, calib, reads, fitted, noise_mode, qst,
                   printed, calls, returned>>

\* lines 146-150: QST_results.npy
SaveResults ==
    /\ pc = "save_results"
    /\ \E ok \in BOOLEAN :
         IF ok
         THEN /\ files' = files \cup {PlainFile("QST_results")}
              /\ Goto("fit")
         ELSE /\ Fail("save_results", "OSError")
              /\ UNCHANGED files
    /\ UNCHANGED <<args, results_exists, dirs, povms, calib, reads, aggr,
                   noise_mode, qst, printed, calls, returned>>

\* line 154: the fit and plot branch is taken
FitEligible(cores, m) == cores < ClusterThreshold /\ m = "BME"

\* sample_step[1000:]: the points curve_fit is given
FitWindow(len) == IF len > FitPrefix THEN len - FitPrefix ELSE 0

\* lines 154-159: the two power-law fits; curve_fit raises when it is given
\* fewer points than parameters, and when the least squares do not converge
Fit ==
    /\ pc = "fit"
    /\ IF FitEligible(n_cores, method)
       THEN /\ calls' = Append(calls, Call("curve_fit", <<>>, FitWindow(sample_step),
                                           calibration_states, calibration_angles))
            /\ IF FitWindow(sample_step) < FitParams
               THEN /\ Fail("fit", IF FitWindow(sample_step) = 0
                                   THEN "ValueError" ELSE "TypeError")
                    /\ UNCHANGED fitted
               ELSE \E converged \in BOOLEAN :
                      IF converged
                      THEN /\ fitted' = TRUE
                           /\ Goto("plot")
                      ELSE /\ Fail("fit", "RuntimeError")
                           /\ UNCHANGED fitted
       ELSE /\ Goto("return")
            /\ UNCHANGED <<fitted, calls>>
    /\ UNCHANGED <<args, env, povms, calib, reads, n_averages, sample_step,
                   noise_mode, qst, printed, returned>>

\* lines 161-176: the figure and its two files
Plot ==
    /\ pc = "plot"
    /\ \E saved \in 0..2 :
         /\ files' = files
               \cup (IF saved >= 1 THEN {PlainFile("Averaged_infidelities")} ELSE {})
               \cup (IF saved >= 2 THEN {PlainFile("latest_run")} ELSE {})
         /\ IF saved = 2
            THEN Goto("return")
            ELSE Fail("plot", "OSError")
    /\ UNCHANGED <<args, results_exists, dirs, povms, calib, reads, aggr,
                   noise_mode, qst, printed, calls, returned>>

\* line 178
Return ==
    /\ pc = "return"
    /\ returned' = TRUE
    /\ Goto("done")
    /\ UNCHANGED <<args, env, povms, calib, reads, aggr, noise_mode, qst,
                   printed, calls>>

Next ==
    \/ CheckResults
    \/ MakeRunDir
    \/ SaveSettings
    \/ ResolveCalibration
    \/ NoiseStage
    \/ Calibrate
    \/ SaveDT
    \/ GenerateData
    \/ SaveQSTSettings
    \/ CorrectedRun
    \/ CorrectedRead
    \/ UncorrectedRun
    \/ UncorrectedRead
    \/ Aggregate
    \/ SaveResults
    \/ Fit
    \/ Plot
    \/ Return

Spec == Init /\ [][Next]_vars

\* ---- properties -----------------------------------------------------------
NoiseTransforms == {"generate_noisy_POVM", "depolarized_POVM"}
Estimators == {"perform_MLE", "perform_BME"}
Accessors == {"get_infidelity", "get_rho_estm"}

CallsOf(ops) == {i \in DOMAIN calls : calls[i].op \in ops}

\* line 83/78/81 has assigned noisy_POVM_list
NoiseStageDone == noisy_POVM_list # <<>>

Depolarized(nominal) == [i \in 1..Len(nominal) |-> depolarized_POVM(nominal[i])]

\* C1: with bool_exp_measurements set, whatever noise_mode and n_qubits are
\* given, no noise transform is ever called, and once the noise block has
\* run the noise mode is 0 and the warning has been printed.
C1_ExperimentalDisablesNoise ==
    bool_exp_measurements =>
        /\ CallsOf(NoiseTransforms) = {}
        /\ NoiseStageDone =>
             /\ noise_mode = 0
             /\ "Noise mode is disabled as experimental measurements are performed."
                    \in printed

C1_Witness ==
    /\ bool_exp_measurements
    /\ noise_arg # 0
    /\ n_qubits > 1
    /\ pc = "done"

\* C2: when the noise mode the run works with is 0, the noisy operator set
\* is the nominal set itself, in the calibration call, in the data
\* generation call and in DT_settings.
C2_NoNoiseKeepsNominal ==
    (NoiseStageDone /\ noise_mode = 0) =>
        /\ noisy_POVM_list = POVM_list
        /\ \A i \in CallsOf({"device_tomography", "generate_data"}) :
               calls[i].povms = POVM_list
        /\ \A f \in files :
               f.name = "DT_settings" =>
                   /\ f.noisy_POVM_list = POVM_list
                   /\ f.noisy_POVM_list = f.initial_POVM

C2_Witness ==
    /\ noise_mode = 0
    /\ n_qubits > 1
    /\ CallsOf({"device_tomography"}) # {}
    /\ CallsOf({"generate_data"}) # {}
    /\ \E f \in files : f.name = "DT_settings"
    /\ pc = "done"

\* C3 as stated: for n_qubits > 1 and a non-zero noise mode other than the
\* depolarizing one (whichever mode d that is), the run fails with
\* UnsupportedNoiseError before calibration and never applies the
\* depolarizing transform.
C3_UnsupportedNoiseFailsFast ==
    \A d \in 1..MaxNoiseMode :
        (n_qubits > 1 /\ NoiseStageDone /\ noise_mode \notin {0, d}) =>
            /\ error = "UnsupportedNoiseError"
            /\ CallsOf({"depolarized_POVM", "device_tomography"}) = {}

\* C3 (amended): for n_qubits > 1 and any non-zero noise mode the noise
\* block raises nothing: it passes every nominal operator through the
\* depolarizing transform, never through the per-operator one, and the
\* depolarized set is what calibration is called with.
C3_MultiQubitAlwaysDepolarizes ==
    (n_qubits > 1 /\ NoiseStageDone /\ noise_mode # 0) =>
        /\ noisy_POVM_list = Depolarized(POVM_list)
        /\ Cardinality(CallsOf({"depolarized_POVM"})) = Len(POVM_list)
        /\ CallsOf({"generate_noisy_POVM"}) = {}
        /\ error # "UnsupportedNoiseError"
        /\ failed_at # "noise"
        /\ \A i \in CallsOf({"device_tomography"}) :
               calls[i].povms = Depolarized(POVM_list)

C3_Witness ==
    /\ n_qubits > 1
    /\ noise_mode = MaxNoiseMode
    /\ CallsOf({"device_tomography"}) # {}
    /\ noisy_POVM_list = Depolarized(POVM_list)

\* C4: with an empty true-state ensemble the aggregation fails with
\* EmptyEnsembleError; no index error, no division by zero, no mean curve.
C4_EmptyEnsembleError ==
    n_states = 0 =>
        /\ error \notin {"IndexError", "ZeroDivisionError"}
        /\ failed_at = "aggregate" => error = "EmptyEnsembleError"
        /\ pc \notin {"save_results", "fit", "plot", "return", "done"}

\* C5: when the fit branch is eligible and the trajectory is shorter than
\* the excluded prefix, curve_fit is not called and the run returns.
C5_ShortTrajectorySkipsFit ==
    (FitEligible(n_cores, method) /\ traj_len < FitPrefix) =>
        /\ CallsOf({"curve_fit"}) = {}
        /\ failed_at # "fit"

\* C6: the outcome data is generated exactly once, under the noisy operator
\* set, after calibration and before the corrected run; both estimation runs
\* and both result sets rest on that one generation, and only the operator
\* set differs between them.
C6_DataGeneratedOnce ==
    /\ Cardinality(CallsOf({"generate_data"})) <= 1
    /\ qst.n_generated <= 1
    /\ \A g \in CallsOf({"generate_data"}) :
          /\ calls[g].povms = noisy_POVM_list
          /\ \E c \in CallsOf({"device_tomography"}) : c < g
          /\ \A e \in CallsOf(Estimators) : g < e
    /\ CallsOf(Estimators) # {} => qst.n_generated = 1 /\ qst.data = noisy_POVM_list
    /\ corrected_infidelity.set =>
          /\ corrected_infidelity.gen = 1
          /\ corrected_infidelity.povms = reconstructed_POVM_list
    /\ uncorrected_infidelity.set =>
          /\ uncorrected_infidelity.gen = corrected_infidelity.gen
          /\ uncorrected_rho_estm.gen = corrected_rho_estm.gen
          /\ uncorrected_infidelity.povms = POVM_list
          /\ uncorrected_infidelity.povms # corrected_infidelity.povms

C6_Witness ==
    /\ pc = "done"
    /\ noise_mode # 0
    /\ corrected_infidelity.set
    /\ uncorrected_infidelity.set
    /\ Cardinality(CallsOf(Estimators)) = 2

\* C7: a failure while saving the plot does not fail the run, which still
\* returns; a failure while writing QST_results does fail it.
C7_PlotFailureDoesNotFailRun ==
    /\ failed_at # "plot"
    /\ failed_at = "save_results" => ~returned

\* C8: when the results area or the run directory cannot be created the run
\* aborts there: nothing has been called on any stage and nothing has been
\* written, and no stage is called and no artifact written before the run
\* directory exists.
C8_StorageFailureAbortsFirst ==
    /\ failed_at \in {"check_results", "make_run_dir"} =>
          /\ pc = "failed"
          /\ error = "OSError"
          /\ ~returned
    /\ "data_path" \notin dirs =>
          /\ calls = <<>>
          /\ files = {}
          /\ ~NoiseStageDone
          /\ qst = NoQST

C8_Witness ==
    /\ pc = "failed"
    /\ failed_at = "make_run_dir"
    /\ "results" \in dirs

\* C9: with calibration states supplied or not, every argument of the
\* calibration call is defined when line 87 is reached, and the run gets
\* past it into calibration.
C9_CalibrationArgumentsDefined ==
    /\ pc = "calibrate" =>
          /\ calibration_states \in {"given", "default"}
          /\ calibration_angles # "unbound"
    /\ failed_at # "calibrate"
    /\ \A i \in CallsOf({"device_tomography"}) :
          calibration_given => calls[i].cal_states = "given"

\* C10: for every estimator selector, the accessors are called only after
\* an estimation run has completed: the corrected pair after the run under
\* the reconstructed set, the uncorrected pair after a second run under the
\* nominal set.
C10_ReadsFollowRuns ==
    /\ \A i \in CallsOf(Accessors) : calls[i].runs >= 1
    /\ corrected_infidelity.set =>
          /\ corrected_infidelity.run = 1
          /\ corrected_infidelity.povms = reconstructed_POVM_list
    /\ uncorrected_infidelity.set =>
          /\ uncorrected_infidelity.run = 2
          /\ uncorrected_infidelity.povms = POVM_list

====
